---- MODULE Spec2Model ----
(***************************************************************************)
(* Robo AI - Video Frame OCR Extractor.                                    *)
(*                                                                         *)
(* A state-machine model of the frame sampler (utils/videoUtils.ts), the   *)
(* OCR collection loop (services/geminiService.ts) and the App component   *)
(* (word normalisation, exclusion list, persistence, processing run).      *)
(*                                                                         *)
(* Text is modelled character by character: a string is a sequence of      *)
(* one-character strings, so that tokenising, lower-casing, sorting and    *)
(* JSON encoding are computed and not assumed.                             *)
(***************************************************************************)
EXTENDS Integers, Sequences, FiniteSets, TLC

VARIABLES
    \* --- getUniqueWords called on its own (SpecWords) ---
    gwBlocks,      \* argument textBlocks
    gwExcluded,    \* argument excluded
    gwResult,      \* returned list
    gwCalled,      \* the call has returned
    \* --- one run of extractFramesFromVideo (utils/videoUtils.ts) ---
    sm,            \* the closure of the run: arguments, locals, video element, promise
    \* --- App component state (useState) ---
    videoFile, videoUrl, duration, selection, isProcessing, statusMessage,
    frames, uniqueWords, newExcludedWord, excludedWords,
    \* --- localStorage entry and the persistence effect ---
    store,         \* [present, text]: the entry under LOCAL_STORAGE_KEY
    storage,       \* the browser's localStorage: "working", "blocked" (getItem and
                   \* setItem throw) or "full" (setItem throws)
    effectPending, \* the effect on [excludedWords] is scheduled and has not run
    lastPersistOk, \* the last run of the effect wrote the entry
    uncaught,      \* an exception escaped a handler, an initialiser or an effect
    \* --- the run of handleProcessVideo in flight ---
    runPc,         \* "idle", "extracting" (first await), "analyzing" (second await)
    runExcluded,   \* excludedWords as captured by the callback's closure
    ocrIndex,      \* i of analyzeFramesForText: the frame whose call is awaited
    allWords,      \* allWords of analyzeFramesForText
    runTextBlocks, \* what analyzeFramesForText returned to handleProcessVideo
    ocrOutcomes,   \* history: per frame, what its OCR attempt ended as
    \* --- budgets that keep the state space finite ---
    editCount, runCount, sessionCount,
    budget         \* [edits, runs, sessions]: how many of each the behaviour may hold

wordVars == <<gwBlocks, gwExcluded, gwResult, gwCalled>>
appVars == <<videoFile, videoUrl, duration, selection, isProcessing, statusMessage,
             frames, uniqueWords, newExcludedWord, excludedWords>>
storeVars == <<store, storage, effectPending, lastPersistOk, uncaught>>
runVars == <<runPc, runExcluded, ocrIndex, allWords, runTextBlocks, ocrOutcomes>>
budgetVars == <<editCount, runCount, sessionCount>>

vars == <<wordVars, sm, appVars, storeVars, runVars, budgetVars, budget>>

Range(s) == {s[i] : i \in DOMAIN s}

(***************************************************************************)
(* Characters and strings                                                  *)
(***************************************************************************)
UpperCase == <<"A","B","C","D","E","F","G","H","I","J","K","L","M",
               "N","O","P","Q","R","S","T","U","V","W","X","Y","Z">>
LowerCase == <<"a","b","c","d","e","f","g","h","i","j","k","l","m",
               "n","o","p","q","r","s","t","u","v","w","x","y","z">>
DigitChars == {"0","1","2","3","4","5","6","7","8","9"}

\* The characters of the model in UTF-16 code unit order (all are ASCII).
CodeUnits == <<" ", "\"", ",", "-", "/",
               "0","1","2","3","4","5","6","7","8","9">>
             \o UpperCase \o <<"[", "\\", "]", "_">> \o LowerCase \o <<"{", "}">>

CodeOf == [c \in Range(CodeUnits) |->
              CHOOSE i \in DOMAIN CodeUnits : CodeUnits[i] = c]

\* \w of a JavaScript regular expression without the u flag: [A-Za-z0-9_]
IsWordChar(c) == c \in Range(UpperCase) \cup Range(LowerCase) \cup DigitChars \cup {"_"}

\* String.prototype.toLowerCase, on one character
CharToLower(c) ==
    IF c \in Range(UpperCase)
    THEN LowerCase[CHOOSE i \in DOMAIN UpperCase : UpperCase[i] = c]
    ELSE c

toLowerCase(s) == [i \in DOMAIN s |-> CharToLower(s[i])]

\* The whitespace of the model is the space character.
RECURSIVE trim(_)
trim(s) ==
    IF s = <<>> THEN s
    ELSE IF Head(s) = " " THEN trim(Tail(s))
    ELSE IF s[Len(s)] = " " THEN trim(SubSeq(s, 1, Len(s) - 1))
    ELSE s

\* s < t as Array.prototype.sort compares strings without a comparator:
\* by code units, a proper prefix first.
StrLess(s, t) ==
    \E k \in 1..Len(t) :
        /\ \A j \in 1..(k - 1) : j <= Len(s) /\ s[j] = t[j]
        /\ \/ Len(s) = k - 1
           \/ Len(s) >= k /\ CodeOf[s[k]] < CodeOf[t[k]]

InsertSorted(w, s) ==
    LET n == Cardinality({i \in DOMAIN s : ~StrLess(w, s[i])})
    IN  SubSeq(s, 1, n) \o <<w>> \o SubSeq(s, n + 1, Len(s))

\* Array.prototype.sort() on an array of strings
RECURSIVE SortStrings(_)
SortStrings(list) ==
    IF list = <<>> THEN <<>>
    ELSE InsertSorted(list[Len(list)], SortStrings(SubSeq(list, 1, Len(list) - 1)))

\* Array.prototype.join
RECURSIVE Join(_, _)
Join(list, sep) ==
    IF list = <<>> THEN <<>>
    ELSE IF Len(list) = 1 THEN list[1]
    ELSE list[1] \o sep \o Join(Tail(list), sep)

\* text.match(/\b\w+\b/g) || [] : the maximal runs of word characters, in order
RECURSIVE MatchWordsFrom(_, _, _, _)
MatchWordsFrom(text, i, cur, acc) ==
    IF i > Len(text)
    THEN (IF cur = <<>> THEN acc ELSE Append(acc, cur))
    ELSE IF IsWordChar(text[i])
    THEN MatchWordsFrom(text, i + 1, Append(cur, text[i]), acc)
    ELSE MatchWordsFrom(text, i + 1, <<>>,
                        IF cur = <<>> THEN acc ELSE Append(acc, cur))

MatchWords(text) == MatchWordsFrom(text, 1, <<>>, <<>>)

\* /^\d+$/.test(word)
IsNumeric(word) == word # <<>> /\ \A i \in DOMAIN word : word[i] \in DigitChars

\* Array.from(new Set(list)): first occurrences, in insertion order
RECURSIVE Dedup(_)
Dedup(list) ==
    IF list = <<>> THEN <<>>
    ELSE LET front == Dedup(SubSeq(list, 1, Len(list) - 1))
             last  == list[Len(list)]
         IN  IF last \in Range(front) THEN front ELSE Append(front, last)

MapLower(list) == [i \in DOMAIN list |-> toLowerCase(list[i])]

getUniqueWordsUnsorted(textBlocks, excluded) ==
    LET allText         == Join(textBlocks, <<" ">>)
        words           == MatchWords(allText)
        lowercasedWords == MapLower(words)
        excludedSet     == Range(MapLower(excluded))
        keep(word)      == ~IsNumeric(word) /\ word \notin excludedSet
        filteredWords   == SelectSeq(lowercasedWords, keep)
    IN  Dedup(filteredWords)

getUniqueWordsKeepCase(textBlocks, excluded) ==
    LET allText       == Join(textBlocks, <<" ">>)
        words         == MatchWords(allText)
        excludedSet   == Range(MapLower(excluded))
        keep(word)    == ~IsNumeric(word) /\ word \notin excludedSet
        filteredWords == SelectSeq(words, keep)
    IN  SortStrings(Dedup(filteredWords))

getUniqueWords(textBlocks, excluded) ==
    LET allText         == Join(textBlocks, <<" ">>)
        words           == MatchWords(allText)
        lowercasedWords == MapLower(words)
        excludedSet     == Range(MapLower(excluded))
        keep(word)      == ~IsNumeric(word) /\ word \notin excludedSet
        filteredWords   == SelectSeq(lowercasedWords, keep)
    IN  SortStrings(Dedup(filteredWords))


(***************************************************************************)
(* utils/videoUtils.ts: extractFramesFromVideo                             *)
(*                                                                         *)
(* Times are counted in units of 1/TimeDen second, so that fractional      *)
(* startTime and endTime occur; currentTime and frame ids are whole        *)
(* seconds.                                                                *)
(***************************************************************************)
TimeDen == 2         \* time units per second
MaxTime == 6         \* largest endTime, in time units

MathFloor(t) == t \div TimeDen

MathCeil(t) == (t + TimeDen - 1) \div TimeDen

Max(a, b) == IF a >= b THEN a ELSE b

\* statusMessage / onProgress messages, as records of one shape
Msg(kind, n, total, reason) == [kind |-> kind, n |-> n, total |-> total, reason |-> reason]

NoMessage == Msg("", 0, 0, "")

\* canvas.toDataURL('image/jpeg', 0.8): a canvas without area encodes as "data:,"
toDataURL(canvasWidth) ==
    IF canvasWidth = 0
    THEN [mime |-> "", base64 |-> FALSE, data |-> ""]
    ELSE [mime |-> "image/jpeg", base64 |-> TRUE, data |-> "/9j/4AAQ"]

\* No run of extractFramesFromVideo exists.
NoSampler ==
    [active |-> FALSE, viaApp |-> FALSE, startTime |-> 0, endTime |-> 0,
     context |-> FALSE, videoWidth |-> 0, canvasWidth |-> 0,
     frames |-> <<>>, currentTime |-> 0, totalFrames |-> 0,
     progress |-> <<>>, seeks |-> <<>>, seekPending |-> FALSE, log |-> <<>>,
     metadataLoaded |-> FALSE, errorFired |-> FALSE,
     revoked |-> 0, promise |-> "none", reason |-> ""]

InitialTimeCeil(startTime) == MathCeil(startTime)

\* line 19: let currentTime = Math.floor(startTime)
InitialTime(startTime) == MathFloor(startTime)

extractFramesCountingSeconds(startTime, endTime, context, videoWidth, viaApp) ==
    [active |-> TRUE, viaApp |-> viaApp, startTime |-> startTime, endTime |-> endTime,
     context |-> context, videoWidth |-> videoWidth, canvasWidth |-> 300,
     frames |-> <<>>, currentTime |-> InitialTime(startTime),
     totalFrames |-> MathFloor(endTime) - MathFloor(startTime) + 1,
     progress |-> <<>>, seeks |-> <<>>, seekPending |-> FALSE, log |-> <<>>,
     metadataLoaded |-> FALSE, errorFired |-> FALSE,
     revoked |-> 0, promise |-> "pending", reason |-> ""]

\* The state right after the Promise executor has run (lines 11-21, 42-57):
\* listeners attached, video.load() called, nothing fired yet.
extractFramesFromVideo(startTime, endTime, context, videoWidth, viaApp) ==
    [active |-> TRUE, viaApp |-> viaApp, startTime |-> startTime, endTime |-> endTime,
     context |-> context, videoWidth |-> videoWidth, canvasWidth |-> 300,
     frames |-> <<>>, currentTime |-> InitialTime(startTime),
     totalFrames |-> Max(1, MathFloor(endTime - startTime)),
     progress |-> <<>>, seeks |-> <<>>, seekPending |-> FALSE, log |-> <<>>,
     metadataLoaded |-> FALSE, errorFired |-> FALSE,
     revoked |-> 0, promise |-> "pending", reason |-> ""]

\* The calls and events of the run, in the order they happen: <<what, argument>>
Logged(s, what, arg) == [s EXCEPT !.log = Append(@, <<what, arg>>)]

ResolveDropped(s) == s

RejectWithoutReason(s, why) ==
    IF s.promise = "pending" THEN [s EXCEPT !.promise = "rejected"] ELSE s

\* resolve / reject of the Promise: only the first settlement counts
Resolve(s) ==
    IF s.promise = "pending"
    THEN Logged([s EXCEPT !.promise = "resolved"], "resolve", 0)
    ELSE Logged(s, "resolve", 0)

Reject(s, why) ==
    IF s.promise = "pending"
    THEN Logged([s EXCEPT !.promise = "rejected", !.reason = why], "reject", 0)
    ELSE Logged(s, "reject", 0)

\* video.currentTime = t : starts a seek that a seeked event answers
SetVideoCurrentTime(s, t) ==
    Logged([s EXCEPT !.seekPending = TRUE, !.seeks = Append(@, t)], "seek", t)

\* URL.revokeObjectURL(videoUrl)
RevokeObjectURL(s) == Logged([s EXCEPT !.revoked = @ + 1], "revoke", 0)

ContinueSeekingStrict(t, endTime) == t * TimeDen < endTime

\* line 34: currentTime <= endTime
ContinueSeeking(t, endTime) == t * TimeDen <= endTime

\* lines 23-40
captureFrame(s) ==
    IF ~s.context
    THEN Reject(s, "Canvas context is not available.")
    ELSE LET frame == [id |-> s.currentTime, imageDataUrl |-> toDataURL(s.canvasWidth)]
             pushed == Logged([s EXCEPT !.frames = Append(@, frame)], "push", frame.id)
             reported == Logged([pushed EXCEPT !.progress =
                                    Append(@, Msg("Extracted frame", Len(pushed.frames),
                                                  s.totalFrames, ""))],
                                "onProgress", Len(pushed.frames))
             s1 == [reported EXCEPT !.currentTime = @ + 1]
         IN  IF ContinueSeeking(s1.currentTime, s1.endTime)
             THEN SetVideoCurrentTime(s1, s1.currentTime)
             ELSE Resolve(RevokeObjectURL(s1))

onLoadedMetadataUnsized(s) ==
    SetVideoCurrentTime(Logged([s EXCEPT !.metadataLoaded = TRUE], "loadedmetadata", 0),
                        s.currentTime)

onLoadedMetadataCapturing(s) ==
    captureFrame(SetVideoCurrentTime(Logged([s EXCEPT !.metadataLoaded = TRUE,
                                                      !.canvasWidth = s.videoWidth],
                                            "loadedmetadata", 0),
                                     s.currentTime))

\* lines 42-46
onLoadedMetadata(s) ==
    SetVideoCurrentTime(Logged([s EXCEPT !.metadataLoaded = TRUE,
                                         !.canvasWidth = s.videoWidth],
                               "loadedmetadata", 0),
                        s.currentTime)

\* lines 50-54
onError(s) ==
    Reject(RevokeObjectURL(Logged([s EXCEPT !.errorFired = TRUE], "error", 0)),
           "Error loading video")

\* onProgress is setStatusMessage when the App started the run
ProgressShown(old, new) ==
    IF new.viaApp /\ Len(new.progress) > Len(old.progress)
    THEN new.progress[Len(new.progress)]
    ELSE statusMessage

\* The continuation of handleProcessVideo runs as a microtask right after the
\* event that settled the promise: no other event is handled in between.
MicrotaskPending == runPc = "extracting" /\ sm.promise # "pending"

\* React runs the scheduled effect before it handles the next event.
Quiescent == ~MicrotaskPending /\ ~effectPending /\ ~uncaught

\* The video element of the run fires loadedmetadata (once, if it loads).
LoadedMetadata ==
    /\ Quiescent
    /\ sm.active /\ ~sm.metadataLoaded /\ ~sm.errorFired
    /\ sm' = onLoadedMetadata(sm)
    /\ UNCHANGED <<wordVars, budget, appVars, storeVars, runVars, budgetVars>>

\* The video element answers the outstanding seek with seeked.
Seeked ==
    /\ Quiescent
    /\ sm.active /\ sm.seekPending
    /\ sm' = captureFrame(Logged([sm EXCEPT !.seekPending = FALSE], "seeked", 0))
    /\ statusMessage' = ProgressShown(sm, sm')
    /\ UNCHANGED <<wordVars, budget, videoFile, videoUrl, duration, selection, isProcessing,
                   frames, uniqueWords, newExcludedWord, excludedWords,
                   storeVars, runVars, budgetVars>>

\* The video element fires error (a load or decode failure), once, while it
\* loads or seeks for the run.
VideoError ==
    /\ Quiescent
    /\ sm.active /\ ~sm.errorFired
    /\ sm.promise = "pending" \/ sm.seekPending
    /\ sm' = onError(sm)
    /\ UNCHANGED <<wordVars, budget, appVars, storeVars, runVars, budgetVars>>


(***************************************************************************)
(* JSON.stringify and JSON.parse on the values the exclusion list needs.   *)
(* Grammar of the model: null, unsigned integers, strings with the escapes *)
(* \" \\ \/, {} and arrays of those, without white space.                  *)
(***************************************************************************)
EscapeChar(c) == IF c \in {"\"", "\\"} THEN <<"\\", c>> ELSE <<c>>

QuoteNoEscape(str) == <<"\"">> \o str \o <<"\"">>

\* JSON.stringify of a string
Quote(str) ==
    <<"\"">> \o Join([i \in DOMAIN str |-> EscapeChar(str[i])], <<>>) \o <<"\"">>

\* JSON.stringify of an array of strings
JSONStringify(list) ==
    <<"[">> \o Join([i \in DOMAIN list |-> Quote(list[i])], <<",">>) \o <<"]">>

ParseFail == [ok |-> FALSE, type |-> "SyntaxError", str |-> <<>>, items |-> <<>>, next |-> 0]

\* The string literal whose opening quote precedes position i.
RECURSIVE ScanString(_, _, _)
ScanString(text, i, acc) ==
    IF i > Len(text) THEN ParseFail
    ELSE IF text[i] = "\""
    THEN [ok |-> TRUE, type |-> "string", str |-> acc, items |-> <<>>, next |-> i + 1]
    ELSE IF text[i] = "\\"
    THEN IF i + 1 <= Len(text) /\ text[i + 1] \in {"\"", "\\", "/"}
         THEN ScanString(text, i + 2, Append(acc, text[i + 1]))
         ELSE ParseFail
    ELSE ScanString(text, i + 1, Append(acc, text[i]))

RECURSIVE ScanDigits(_, _)
ScanDigits(text, i) ==
    IF i <= Len(text) /\ text[i] \in DigitChars THEN ScanDigits(text, i + 1) ELSE i

\* A value that is not an array, starting at position i.
ParseScalar(text, i) ==
    IF i > Len(text) THEN ParseFail
    ELSE IF text[i] = "\"" THEN ScanString(text, i + 1, <<>>)
    ELSE IF text[i] \in DigitChars
    THEN [ok |-> TRUE, type |-> "number", str |-> <<>>, items |-> <<>>,
          next |-> ScanDigits(text, i)]
    ELSE IF i + 3 <= Len(text) /\ SubSeq(text, i, i + 3) = <<"n","u","l","l">>
    THEN [ok |-> TRUE, type |-> "null", str |-> <<>>, items |-> <<>>, next |-> i + 4]
    ELSE IF i + 1 <= Len(text) /\ SubSeq(text, i, i + 1) = <<"{","}">>
    THEN [ok |-> TRUE, type |-> "object", str |-> <<>>, items |-> <<>>, next |-> i + 2]
    ELSE ParseFail

\* The elements of an array from position i on, after "[" or ",".
RECURSIVE ScanElements(_, _, _)
ScanElements(text, i, acc) ==
    LET el == ParseScalar(text, i)
    IN  IF ~el.ok THEN ParseFail
        ELSE LET got == Append(acc, [type |-> el.type, str |-> el.str])
             IN  IF el.next > Len(text) THEN ParseFail
                 ELSE IF text[el.next] = "]"
                 THEN [ok |-> TRUE, type |-> "array", str |-> <<>>, items |-> got,
                       next |-> el.next + 1]
                 ELSE IF text[el.next] = ","
                 THEN ScanElements(text, el.next + 1, got)
                 ELSE ParseFail

ParseValue(text) ==
    IF text # <<>> /\ text[1] = "["
    THEN IF Len(text) >= 2 /\ text[2] = "]"
         THEN [ok |-> TRUE, type |-> "array", str |-> <<>>, items |-> <<>>, next |-> 3]
         ELSE ScanElements(text, 2, <<>>)
    ELSE ParseScalar(text, 1)

\* JSON.parse: the value, or a SyntaxError (ok = FALSE)
JSONParse(text) ==
    LET v == ParseValue(text)
    IN  IF v.ok /\ v.next = Len(text) + 1 THEN v ELSE ParseFail

(***************************************************************************)
(* App component: constants, initial state, persistence                    *)
(***************************************************************************)
INITIAL_EXCLUDED_WORDS ==
    << <<"d","a","i","l","y">>, <<"g","e","t">>, <<"g","u","e","s","t">>,
       <<"h","o","s","t">>, <<"i","d">>, <<"j","o","i","n">>, <<"l","i","s","t">>,
       <<"l","i","v","e">>, <<"m","o","n","t","h">>, <<"m","o","n","t","h","l","y">>,
       <<"v","i","p">>, <<"w","e","e","k","l","y">>, <<"x">>, <<"y">>,
       <<"r","a","n","k">>, <<"r","a","n","k","e","d">>, <<"r","e","a","m">>,
       <<"r","e","s","t","i","n","g">>, <<"r","o","a","m">> >>

Absent == [present |-> FALSE, text |-> <<>>]

Entry(text) == [present |-> TRUE, text |-> text]

IsArrayOfStrings(parsed) ==
    parsed.type = "array" /\ \A i \in DOMAIN parsed.items : parsed.items[i].type = "string"

LoadExcludedWordsNoCatch(entry, readThrows) ==
    IF readThrows THEN [list |-> <<>>, threw |-> TRUE]
    ELSE IF ~entry.present \/ entry.text = <<>>
    THEN [list |-> INITIAL_EXCLUDED_WORDS, threw |-> FALSE]
    ELSE LET parsed == JSONParse(entry.text)
         IN  IF ~parsed.ok THEN [list |-> <<>>, threw |-> TRUE]
             ELSE IF IsArrayOfStrings(parsed)
             THEN [list |-> [i \in DOMAIN parsed.items |-> parsed.items[i].str],
                   threw |-> FALSE]
             ELSE [list |-> INITIAL_EXCLUDED_WORDS, threw |-> FALSE]

LoadExcludedWordsTruthy(entry, readThrows) ==
    IF readThrows THEN [list |-> INITIAL_EXCLUDED_WORDS, threw |-> FALSE]
    ELSE IF ~entry.present \/ entry.text = <<>>
    THEN [list |-> INITIAL_EXCLUDED_WORDS, threw |-> FALSE]
    ELSE LET parsed == JSONParse(entry.text)
         IN  IF ~parsed.ok THEN [list |-> INITIAL_EXCLUDED_WORDS, threw |-> FALSE]
             ELSE IF IsArrayOfStrings(parsed) /\ parsed.items # <<>>
             THEN [list |-> [i \in DOMAIN parsed.items |-> parsed.items[i].str],
                   threw |-> FALSE]
             ELSE [list |-> INITIAL_EXCLUDED_WORDS, threw |-> FALSE]

\* lines 91-104: the lazy initial state of excludedWords.  entry is what
\* localStorage holds, readThrows says that getItem throws.  threw reports an
\* exception that leaves the initialiser.
LoadExcludedWords(entry, readThrows) ==
    IF readThrows
    THEN [list |-> INITIAL_EXCLUDED_WORDS, threw |-> FALSE]       \* catch, line 100
    ELSE IF ~entry.present \/ entry.text = <<>>                  \* if (saved), line 94
    THEN [list |-> INITIAL_EXCLUDED_WORDS, threw |-> FALSE]
    ELSE LET parsed == JSONParse(entry.text)
         IN  IF ~parsed.ok
             THEN [list |-> INITIAL_EXCLUDED_WORDS, threw |-> FALSE]   \* catch
             ELSE IF IsArrayOfStrings(parsed)
             THEN [list |-> [i \in DOMAIN parsed.items |-> parsed.items[i].str],
                   threw |-> FALSE]
             ELSE [list |-> INITIAL_EXCLUDED_WORDS, threw |-> FALSE]

PersistNoEscape(list, entry, writeThrows) ==
    IF writeThrows THEN entry
    ELSE Entry(<<"[">> \o Join([i \in DOMAIN list |-> QuoteNoEscape(list[i])], <<",">>)
               \o <<"]">>)

\* lines 125-129: the body of the persistence effect; the entry afterwards
Persist(list, entry, writeThrows) ==
    IF writeThrows THEN entry ELSE Entry(JSONStringify(list))


(***************************************************************************)
(* services/geminiService.ts: analyzeFramesForText                         *)
(***************************************************************************)
\* lines 5-18: dataUrlToPart throws unless the URL matches /^data:(.*);base64,/
dataUrlToPartThrows(dataUrl) == ~dataUrl.base64

\* What one frame's OCR attempt ended as.  called: generateContent was invoked.
Outcome(called, ok, text) == [called |-> called, ok |-> ok, text |-> text]

\* The state of the for loop: i is the frame whose response is awaited, or
\* Len(frames) + 1 when the loop is over; rejected: the async function threw.
LoopState(i, all, outs, status, done, rejected) ==
    [index |-> i, all |-> all, outs |-> outs, status |-> status,
     done |-> done, rejected |-> rejected]

\* lines 24-28 and 40-43, from iteration i on, up to the next await:
\* a frame whose data URL does not parse is skipped without a call.
RECURSIVE IterateFrom(_, _, _, _, _)
IterateFrom(i, fr, all, outs, status) ==
    IF i > Len(fr)
    THEN LoopState(i, all, outs, status, TRUE, FALSE)
    ELSE IF dataUrlToPartThrows(fr[i].imageDataUrl)
    THEN IterateFrom(i + 1, fr, all, Append(outs, Outcome(FALSE, FALSE, <<>>)),
                     Msg("Skipping frame", i, 0, ""))
    ELSE LoopState(i, all, outs, Msg("Analyzing frame", i, Len(fr), ""), FALSE, FALSE)

AfterResponseRetry(i, fr, all, outs, response) ==
    IF response.ok
    THEN IterateFrom(i + 1, fr,
                     IF response.text # <<>> THEN Append(all, response.text) ELSE all,
                     Append(outs, Outcome(TRUE, TRUE, response.text)),
                     Msg("Analyzing frame", i, Len(fr), ""))
    ELSE IterateFrom(i, fr, all, Append(outs, Outcome(TRUE, FALSE, <<>>)),
                     Msg("Skipping frame", i, 0, ""))

AfterResponseNoCatch(i, fr, all, outs, response) ==
    IF response.ok
    THEN IterateFrom(i + 1, fr,
                     IF response.text # <<>> THEN Append(all, response.text) ELSE all,
                     Append(outs, Outcome(TRUE, TRUE, response.text)),
                     Msg("Analyzing frame", i, Len(fr), ""))
    ELSE LoopState(i, all, Append(outs, Outcome(TRUE, FALSE, <<>>)),
                   Msg("Analyzing frame", i, Len(fr), ""), TRUE, TRUE)

\* lines 31-43, after the await of iteration i, and on to the next await
AfterResponse(i, fr, all, outs, response) ==
    IF response.ok
    THEN IterateFrom(i + 1, fr,
                     IF response.text # <<>> THEN Append(all, response.text) ELSE all,
                     Append(outs, Outcome(TRUE, TRUE, response.text)),
                     Msg("Analyzing frame", i, Len(fr), ""))
    ELSE IterateFrom(i + 1, fr, all, Append(outs, Outcome(TRUE, FALSE, <<>>)),
                     Msg("Skipping frame", i, 0, ""))

\* line 21 and the loop up to its first await
analyzeFramesForText(fr, clientThrows) ==
    IF clientThrows
    THEN LoopState(1, <<>>, <<>>, statusMessage, TRUE, TRUE)
    ELSE IterateFrom(1, fr, <<>>, <<>>, statusMessage)

(***************************************************************************)
(* Input pools and budgets of the App                                      *)
(***************************************************************************)
MaxEdits == 2        \* add / remove / double-click actions on the exclusion list
MaxRuns == 1         \* processing runs
MaxSessions == 1     \* session starts after the first

FullBudget == [edits |-> MaxEdits, runs |-> MaxRuns, sessions |-> MaxSessions]

VideoDurations == {2}           \* in time units: 1 s
VideoWidths == {0, 640}

\* what the OCR collaborator answers: text (possibly empty) or a failure
OcrResponses ==
    { [ok |-> FALSE, text |-> <<>>],
      [ok |-> TRUE, text |-> <<>>],
      [ok |-> TRUE, text |-> <<"V","I","P"," ","S","c","o","r","e"," ","4","2">>],
      [ok |-> TRUE, text |-> <<"g","e","t"," ","a","_","1">>] }

\* what the user types into the "Add word to exclude" field
TypedPool ==
    { <<" ","S","c","o","r","e"," ">>, <<"v","i","p">>,
      <<"a","\"","\\">>, <<" "," ">> }

\* what localStorage holds under the key when the first session starts
InitialStores ==
    { Absent,
      Entry(<<>>),
      Entry(<<"[","\"","a">>),
      Entry(<<"{","}">>),
      Entry(<<"n","u","l","l">>),
      Entry(<<"\"","a","\"">>),
      Entry(<<"[","\"","a","\"",",","7","]">>),
      Entry(<<"[","]">>) }

StorageModes == {"working", "blocked", "full"}

\* the words of the list whose remove button the user clicks
RemovePool == { <<"v","i","p">>, <<"s","c","o","r","e">> }

SliderValues(max) == { k * TimeDen : k \in 0..MathFloor(max) }

(***************************************************************************)
(* App component: session start                                            *)
(***************************************************************************)
\* The state right after the component has mounted on the given entry.
Mounted(modes) ==
    /\ store \in InitialStores
    /\ storage \in modes
    /\ LET loaded == LoadExcludedWords(store, storage = "blocked")
       IN  /\ excludedWords = loaded.list
           /\ uncaught = loaded.threw
           /\ effectPending = ~loaded.threw
    /\ lastPersistOk = FALSE
    /\ videoFile = "none" /\ videoUrl = "none" /\ duration = 0 /\ selection = <<0, 0>>
    /\ isProcessing = FALSE /\ statusMessage = NoMessage
    /\ frames = <<>> /\ uniqueWords = <<>> /\ newExcludedWord = <<>>
    /\ sm = NoSampler
    /\ runPc = "idle" /\ runExcluded = <<>> /\ ocrIndex = 0 /\ allWords = <<>>
    /\ runTextBlocks = <<>> /\ ocrOutcomes = <<>>
    /\ editCount = 0 /\ runCount = 0 /\ sessionCount = 0
    /\ gwBlocks = <<>> /\ gwExcluded = <<>> /\ gwResult = <<>> /\ gwCalled = FALSE

\* The page is loaded again: every piece of state is rebuilt, the entry stays.
SessionStart ==
    /\ ~MicrotaskPending /\ ~effectPending
    /\ sessionCount < budget.sessions
    /\ sessionCount' = sessionCount + 1
    /\ LET loaded == LoadExcludedWords(store, storage = "blocked")
       IN  /\ excludedWords' = loaded.list
           /\ uncaught' = loaded.threw
           /\ effectPending' = ~loaded.threw
    /\ lastPersistOk' = FALSE
    /\ videoFile' = "none" /\ videoUrl' = "none" /\ duration' = 0 /\ selection' = <<0, 0>>
    /\ isProcessing' = FALSE /\ statusMessage' = NoMessage
    /\ frames' = <<>> /\ uniqueWords' = <<>> /\ newExcludedWord' = <<>>
    /\ sm' = NoSampler
    /\ runPc' = "idle" /\ runExcluded' = <<>> /\ ocrIndex' = 0 /\ allWords' = <<>>
    /\ runTextBlocks' = <<>> /\ ocrOutcomes' = <<>>
    /\ UNCHANGED <<wordVars, budget, store, storage, editCount, runCount>>

\* lines 123-130: the effect on [excludedWords]
PersistEffect ==
    /\ effectPending /\ ~uncaught
    /\ store' = Persist(excludedWords, store, storage # "working")
    /\ lastPersistOk' = (storage = "working")
    /\ effectPending' = FALSE
    /\ UNCHANGED <<wordVars, budget, sm, appVars, storage, uncaught, runVars, budgetVars>>

(***************************************************************************)
(* App component: video and selection handlers                             *)
(***************************************************************************)
\* lines 140-148; the uploader is rendered while there is no videoUrl
handleFileChange ==
    /\ Quiescent
    /\ videoUrl = "none"
    /\ IF isProcessing
       THEN UNCHANGED <<videoFile, videoUrl, frames, uniqueWords, statusMessage>>
       ELSE /\ videoFile' = "file"
            /\ videoUrl' = "blob:file"
            /\ frames' = <<>>
            /\ uniqueWords' = <<>>
            /\ statusMessage' = NoMessage
    /\ UNCHANGED <<wordVars, budget, sm, duration, selection, isProcessing, newExcludedWord,
                   excludedWords, storeVars, runVars, budgetVars>>

\* lines 150-162; the button is rendered with the video and disabled during a run
handleRemoveVideo ==
    /\ Quiescent
    /\ videoUrl # "none" /\ ~isProcessing
    /\ videoFile' = "none"
    /\ videoUrl' = "none"
    /\ duration' = 0
    /\ selection' = <<0, 0>>
    /\ statusMessage' = NoMessage
    /\ frames' = <<>>
    /\ uniqueWords' = <<>>
    /\ UNCHANGED <<wordVars, budget, sm, isProcessing, newExcludedWord, excludedWords,
                   storeVars, runVars, budgetVars>>

\* lines 164-170; the preview element fires loadedmetadata once per source
handleLoadedMetadata ==
    /\ Quiescent
    /\ videoUrl # "none" /\ duration = 0
    /\ \E videoDuration \in VideoDurations :
          /\ duration' = videoDuration
          /\ selection' = <<0, videoDuration>>
    /\ UNCHANGED <<wordVars, budget, sm, videoFile, videoUrl, isProcessing, statusMessage,
                   frames, uniqueWords, newExcludedWord, excludedWords,
                   storeVars, runVars, budgetVars>>

StartChangedNoClamp(sel, newStart) == <<newStart, sel[2]>>

\* lines 174-178
StartChanged(sel, newStart) ==
    IF newStart >= sel[2] THEN <<newStart, newStart>> ELSE <<newStart, sel[2]>>

\* lines 183-187
EndChanged(sel, newEnd) ==
    IF newEnd <= sel[1] THEN <<newEnd, newEnd>> ELSE <<sel[1], newEnd>>

\* lines 172-179; the sliders are rendered once duration > 0, disabled during a run
handleStartChange ==
    /\ Quiescent
    /\ videoUrl # "none" /\ duration > 0 /\ ~isProcessing
    /\ \E newStart \in SliderValues(duration) :
          selection' = StartChanged(selection, newStart)
    /\ UNCHANGED <<wordVars, budget, sm, videoFile, videoUrl, duration, isProcessing, statusMessage,
                   frames, uniqueWords, newExcludedWord, excludedWords,
                   storeVars, runVars, budgetVars>>

\* lines 181-188
handleEndChange ==
    /\ Quiescent
    /\ videoUrl # "none" /\ duration > 0 /\ ~isProcessing
    /\ \E newEnd \in SliderValues(duration) :
          selection' = EndChanged(selection, newEnd)
    /\ UNCHANGED <<wordVars, budget, sm, videoFile, videoUrl, duration, isProcessing, statusMessage,
                   frames, uniqueWords, newExcludedWord, excludedWords,
                   storeVars, runVars, budgetVars>>


handleProcessVideoWhileRunning ==
    /\ Quiescent
    /\ videoUrl # "none" /\ duration > 0 /\ videoFile # "none"
    /\ runCount < budget.runs
    /\ runCount' = runCount + 1
    /\ isProcessing' = TRUE
    /\ frames' = <<>>
    /\ uniqueWords' = <<>>
    /\ statusMessage' = Msg("Starting video processing...", 0, 0, "")
    /\ \E context \in BOOLEAN, videoWidth \in VideoWidths :
          sm' = extractFramesFromVideo(selection[1], selection[2], context, videoWidth, TRUE)
    /\ runPc' = "extracting"
    /\ runExcluded' = excludedWords
    /\ ocrIndex' = 0 /\ allWords' = <<>> /\ ocrOutcomes' = <<>>
    /\ UNCHANGED <<wordVars, budget, videoFile, videoUrl, duration, selection, newExcludedWord,
                   excludedWords, storeVars, runTextBlocks, editCount, sessionCount>>

handleProcessVideoNotAwaiting ==
    /\ Quiescent
    /\ videoUrl # "none" /\ duration > 0 /\ ~isProcessing /\ videoFile # "none"
    /\ runCount < budget.runs
    /\ runCount' = runCount + 1
    /\ isProcessing' = FALSE
    /\ frames' = <<>>
    /\ uniqueWords' = <<>>
    /\ statusMessage' = Msg("Starting video processing...", 0, 0, "")
    /\ \E context \in BOOLEAN, videoWidth \in VideoWidths :
          sm' = extractFramesFromVideo(selection[1], selection[2], context, videoWidth, TRUE)
    /\ runPc' = "extracting"
    /\ runExcluded' = excludedWords
    /\ ocrIndex' = 0 /\ allWords' = <<>> /\ ocrOutcomes' = <<>>
    /\ UNCHANGED <<wordVars, budget, videoFile, videoUrl, duration, selection, newExcludedWord,
                   excludedWords, storeVars, runTextBlocks, editCount, sessionCount>>

(***************************************************************************)
(* App component: the processing run (handleProcessVideo, lines 190-216)   *)
(***************************************************************************)
\* lines 190-199, up to the first await.  The callback reads videoFile,
\* selection and excludedWords from its closure.
handleProcessVideo ==
    /\ Quiescent
    /\ videoUrl # "none" /\ duration > 0 /\ ~isProcessing /\ videoFile # "none"
    /\ runCount < budget.runs
    /\ runCount' = runCount + 1
    /\ isProcessing' = TRUE
    /\ frames' = <<>>
    /\ uniqueWords' = <<>>
    /\ statusMessage' = Msg("Starting video processing...", 0, 0, "")
    /\ \E context \in BOOLEAN, videoWidth \in VideoWidths :
          sm' = extractFramesFromVideo(selection[1], selection[2], context, videoWidth, TRUE)
    /\ runPc' = "extracting"
    /\ runExcluded' = excludedWords
    /\ ocrIndex' = 0 /\ allWords' = <<>> /\ ocrOutcomes' = <<>>
    /\ UNCHANGED <<wordVars, budget, videoFile, videoUrl, duration, selection, newExcludedWord,
                   excludedWords, storeVars, runTextBlocks, editCount, sessionCount>>

\* lines 203-215 from the state a of analyzeFramesForText's loop: the loop
\* awaits the next response, or has returned (lines 204-206), or has thrown
\* (lines 210-212); finally (line 214) ends the run.
ContinueAnalysis(a) ==
    /\ ocrIndex' = a.index
    /\ allWords' = a.all
    /\ ocrOutcomes' = a.outs
    /\ IF a.rejected
       THEN /\ runPc' = "idle"
            /\ isProcessing' = FALSE
            /\ statusMessage' = Msg("An error occurred", 0, 0, "analyzeFramesForText")
            /\ UNCHANGED <<uniqueWords, runTextBlocks>>
       ELSE IF a.done
       THEN /\ runPc' = "idle"
            /\ isProcessing' = FALSE
            /\ runTextBlocks' = a.all
            /\ uniqueWords' = getUniqueWords(a.all, runExcluded)
            /\ statusMessage' = Msg("Processing complete",
                                    Len(getUniqueWords(a.all, runExcluded)), 0, "")
       ELSE /\ runPc' = "analyzing"
            /\ statusMessage' = a.status
            /\ UNCHANGED <<isProcessing, uniqueWords, runTextBlocks>>

\* lines 199-215: the continuation after await extractFramesFromVideo(...)
ExtractSettled ==
    /\ MicrotaskPending /\ ~effectPending /\ ~uncaught
    /\ IF sm.promise = "resolved"
       THEN /\ frames' = sm.frames
            /\ IF Len(sm.frames) > 0
               THEN \E clientThrows \in BOOLEAN :
                       ContinueAnalysis(analyzeFramesForText(sm.frames, clientThrows))
               ELSE /\ statusMessage' = Msg("No frames were extracted from the selection.",
                                            0, 0, "")
                    /\ runPc' = "idle"
                    /\ isProcessing' = FALSE
                    /\ UNCHANGED <<uniqueWords, ocrIndex, allWords, runTextBlocks, ocrOutcomes>>
       ELSE /\ statusMessage' = Msg("An error occurred", 0, 0, sm.reason)
            /\ runPc' = "idle"
            /\ isProcessing' = FALSE
            /\ UNCHANGED <<frames, uniqueWords, ocrIndex, allWords, runTextBlocks, ocrOutcomes>>
    /\ UNCHANGED <<wordVars, budget, sm, videoFile, videoUrl, duration, selection, newExcludedWord,
                   excludedWords, storeVars, runExcluded, budgetVars>>

\* The OCR collaborator answers the call for frame ocrIndex, or fails.
OcrResponse ==
    /\ Quiescent
    /\ runPc = "analyzing"
    /\ \E response \in OcrResponses :
          ContinueAnalysis(AfterResponse(ocrIndex, frames, allWords, ocrOutcomes, response))
    /\ UNCHANGED <<wordVars, budget, sm, videoFile, videoUrl, duration, selection, frames,
                   newExcludedWord, excludedWords, storeVars, runExcluded, budgetVars>>

(***************************************************************************)
(* App component: exclusion list handlers                                  *)
(***************************************************************************)
AddedUnsorted(list, word) == Append(list, word)

\* [...list, word].sort()
Added(list, word) == SortStrings(Append(list, word))

\* lines 230-236, on what the user has typed into the field (line 321: onChange
\* stores it in newExcludedWord, which nothing else reads).  Typing and adding
\* are one step of the model; the field is empty between steps.
handleAddExcludedWord ==
    /\ Quiescent
    /\ \E typed \in TypedPool :
          LET wordToAdd == toLowerCase(trim(typed))
          IN  IF wordToAdd # <<>> /\ wordToAdd \notin Range(excludedWords)
              THEN /\ editCount < budget.edits
                   /\ editCount' = editCount + 1
                   /\ excludedWords' = Added(excludedWords, wordToAdd)
                   /\ effectPending' = TRUE
              ELSE UNCHANGED <<excludedWords, effectPending, editCount>>
    /\ newExcludedWord' = <<>>
    /\ UNCHANGED <<wordVars, budget, sm, videoFile, videoUrl, duration, selection, isProcessing,
                   statusMessage, frames, uniqueWords, store, storage, lastPersistOk, uncaught,
                   runVars, runCount, sessionCount>>

Without(list, word) == SelectSeq(list, LAMBDA w : w # word)

\* lines 238-240
handleRemoveExcludedWord ==
    /\ Quiescent
    /\ editCount < budget.edits
    /\ editCount' = editCount + 1
    /\ \E wordToRemove \in Range(excludedWords) \cap RemovePool :
          excludedWords' = Without(excludedWords, wordToRemove)
    /\ effectPending' = TRUE
    /\ UNCHANGED <<wordVars, budget, sm, videoFile, videoUrl, duration, selection, isProcessing,
                   statusMessage, frames, uniqueWords, newExcludedWord, store, storage,
                   lastPersistOk, uncaught, runVars, runCount, sessionCount>>

\* lines 243-245: the test reads excludedWords of the render the handler was
\* created in (closure); the updater is applied to the state as it is by then (prev)
ExcludedAfterDoubleClick(closure, prev, wordToExclude) ==
    IF wordToExclude \notin Range(closure) THEN Added(prev, wordToExclude) ELSE prev

\* lines 242-247
handleWordDoubleClick ==
    /\ Quiescent
    /\ editCount < budget.edits
    /\ editCount' = editCount + 1
    /\ \E wordToExclude \in Range(uniqueWords) :
          /\ excludedWords' = ExcludedAfterDoubleClick(excludedWords, excludedWords,
                                                       wordToExclude)
          /\ effectPending' = (effectPending \/ excludedWords' # excludedWords)
          /\ uniqueWords' = Without(uniqueWords, wordToExclude)
    /\ UNCHANGED <<wordVars, budget, sm, videoFile, videoUrl, duration, selection, isProcessing,
                   statusMessage, frames, newExcludedWord, store, storage, lastPersistOk, uncaught,
                   runVars, runCount, sessionCount>>

\* lines 242-247, twice before React renders again (two dblclick events
\* dispatched in one task under automatic batching): both calls run in the
\* closure of the same render, the updaters are applied in order.
handleWordDoubleClicks ==
    /\ Quiescent
    /\ editCount + 2 <= budget.edits
    /\ editCount' = editCount + 2
    /\ \E first \in Range(uniqueWords), second \in Range(uniqueWords) :
          /\ excludedWords' =
                 ExcludedAfterDoubleClick(excludedWords,
                     ExcludedAfterDoubleClick(excludedWords, excludedWords, first),
                     second)
          /\ effectPending' = (effectPending \/ excludedWords' # excludedWords)
          /\ uniqueWords' = Without(Without(uniqueWords, first), second)
    /\ UNCHANGED <<wordVars, budget, sm, videoFile, videoUrl, duration, selection, isProcessing,
                   statusMessage, frames, newExcludedWord, store, storage, lastPersistOk, uncaught,
                   runVars, runCount, sessionCount>>

(***************************************************************************)
(* Spec: the App with its processing pipeline                              *)
(***************************************************************************)
Init == Mounted({"working"}) /\ budget = FullBudget

Next ==
    \/ SessionStart
    \/ PersistEffect
    \/ handleFileChange
    \/ handleRemoveVideo
    \/ handleLoadedMetadata
    \/ handleStartChange
    \/ handleEndChange
    \/ handleProcessVideo
    \/ LoadedMetadata
    \/ Seeked
    \/ VideoError
    \/ ExtractSettled
    \/ OcrResponse
    \/ handleAddExcludedWord
    \/ handleRemoveExcludedWord
    \/ handleWordDoubleClick

Spec == Init /\ [][Next]_vars

(***************************************************************************)
(* SpecStorage: the exclusion list and its persistence, on a localStorage  *)
(* that may throw                                                          *)
(***************************************************************************)
InitStorage == Mounted(StorageModes) /\ budget = FullBudget

NextStorage ==
    \/ SessionStart
    \/ PersistEffect
    \/ handleAddExcludedWord
    \/ handleRemoveExcludedWord

SpecStorage == InitStorage /\ [][NextStorage]_vars

(***************************************************************************)
(* SpecSampler: one run of extractFramesFromVideo on arbitrary arguments   *)
(***************************************************************************)
InitSampler ==
    /\ \E startTime \in 0..MaxTime, endTime \in 0..MaxTime,
          context \in BOOLEAN, videoWidth \in VideoWidths :
          /\ startTime <= endTime
          /\ sm = extractFramesFromVideo(startTime, endTime, context, videoWidth, FALSE)
    /\ store = Absent /\ storage = "working" /\ excludedWords = INITIAL_EXCLUDED_WORDS
    /\ uncaught = FALSE /\ effectPending = FALSE /\ lastPersistOk = FALSE
    /\ videoFile = "none" /\ videoUrl = "none" /\ duration = 0 /\ selection = <<0, 0>>
    /\ isProcessing = FALSE /\ statusMessage = NoMessage
    /\ frames = <<>> /\ uniqueWords = <<>> /\ newExcludedWord = <<>>
    /\ runPc = "idle" /\ runExcluded = <<>> /\ ocrIndex = 0 /\ allWords = <<>>
    /\ runTextBlocks = <<>> /\ ocrOutcomes = <<>>
    /\ editCount = 0 /\ runCount = 0 /\ sessionCount = 0 /\ budget = FullBudget
    /\ gwBlocks = <<>> /\ gwExcluded = <<>> /\ gwResult = <<>> /\ gwCalled = FALSE

NextSampler == LoadedMetadata \/ Seeked \/ VideoError

SpecSampler == InitSampler /\ [][NextSampler]_vars

(***************************************************************************)
(* Bounds and input pools                                                  *)
(***************************************************************************)
MaxBlocks == 2       \* text blocks per call of getUniqueWords
MaxExcluded == 2     \* excluded words per call of getUniqueWords

SeqsUpTo(S, n) == UNION {[1..k -> S] : k \in 0..n}

BlockPool ==
    { <<"H","e","l","l","o"," ","W","o","r","l","d">>,
      <<"h","e","l","l","o"," ","1","2","3">>,
      <<"v","i","p"," ","s","c","o","r","e"," ","s","c","o","r","e">>,
      <<"V","I","P",",","b","_","1","-","a">>,
      <<"Z","a"," "," ","a","B">>,
      <<>> }

ExcludedPool ==
    { <<"v","i","p">>, <<"H","e","l","l","o">> }

(***************************************************************************)
(* SpecWords: getUniqueWords as a pure function                            *)
(***************************************************************************)
InitWords ==
    /\ gwBlocks \in SeqsUpTo(BlockPool, MaxBlocks)
    /\ gwExcluded \in SeqsUpTo(ExcludedPool, MaxExcluded)
    /\ gwResult = <<>>
    /\ gwCalled = FALSE
    /\ sm = NoSampler
    /\ store = Absent /\ storage = "working" /\ excludedWords = INITIAL_EXCLUDED_WORDS
    /\ uncaught = FALSE /\ effectPending = FALSE /\ lastPersistOk = FALSE
    /\ videoFile = "none" /\ videoUrl = "none" /\ duration = 0 /\ selection = <<0, 0>>
    /\ isProcessing = FALSE /\ statusMessage = NoMessage
    /\ frames = <<>> /\ uniqueWords = <<>> /\ newExcludedWord = <<>>
    /\ runPc = "idle" /\ runExcluded = <<>> /\ ocrIndex = 0 /\ allWords = <<>>
    /\ runTextBlocks = <<>> /\ ocrOutcomes = <<>>
    /\ editCount = 0 /\ runCount = 0 /\ sessionCount = 0 /\ budget = FullBudget

CallGetUniqueWords ==
    /\ ~gwCalled
    /\ gwResult' = getUniqueWords(gwBlocks, gwExcluded)
    /\ gwCalled' = TRUE
    /\ UNCHANGED <<gwBlocks, gwExcluded, sm, appVars, storeVars, runVars, budgetVars, budget>>

NextWords == CallGetUniqueWords

SpecWords == InitWords /\ [][NextWords]_vars


(***************************************************************************)
(* Claims about extractFramesFromVideo (SpecSampler)                       *)
(***************************************************************************)
FrameIds(fr) == [i \in DOMAIN fr |-> fr[i].id]

ConsecutiveFrom(first, last) == [i \in 1..(last - first + 1) |-> first + i - 1]

\* C1: for 0 <= start < end, a run that returns (every seek answered, no
\* error) returns exactly floor(end) - floor(start) + 1 frames whose ids are
\* floor(start), floor(start) + 1, ..., floor(end), in that order.
C1_ContiguousIds ==
    (sm.promise = "resolved" /\ sm.startTime < sm.endTime) =>
        /\ Len(sm.frames) = MathFloor(sm.endTime) - MathFloor(sm.startTime) + 1
        /\ FrameIds(sm.frames) =
               ConsecutiveFrom(MathFloor(sm.startTime), MathFloor(sm.endTime))

C1_Witness ==
    /\ sm.promise = "resolved" /\ ~sm.errorFired
    /\ sm.startTime < sm.endTime
    /\ sm.startTime % TimeDen # 0 /\ sm.endTime % TimeDen # 0
    /\ Len(sm.frames) >= 3

\* C2: for start = end (whole or fractional), the run captures exactly one
\* frame, with id floor(start), and then completes; no run completes with
\* zero frames.
C2_SingleFrame ==
    /\ (sm.promise = "resolved" /\ sm.startTime = sm.endTime) =>
           FrameIds(sm.frames) = <<MathFloor(sm.startTime)>>
    /\ sm.promise = "resolved" => Len(sm.frames) >= 1

C2_Witness ==
    /\ sm.promise = "resolved"
    /\ sm.startTime = sm.endTime /\ sm.startTime % TimeDen # 0
    /\ FrameIds(sm.frames) = <<MathFloor(sm.startTime)>>

\* C3: in every run the object URL is revoked exactly once: never twice, and
\* once the run has completed or failed (load/decode error, or canvas context
\* unavailable) it has been revoked.
C3_RevokedExactlyOnce ==
    sm.active =>
        /\ sm.revoked <= 1
        /\ sm.promise \in {"resolved", "rejected"} => sm.revoked = 1

(***************************************************************************)
(* Claims about getUniqueWords (SpecWords)                                 *)
(***************************************************************************)
\* The word tokens of one block: the maximal runs of word characters.
TokensOf(block) ==
    { SubSeq(block, p[1], p[2]) : p \in
        { q \in (DOMAIN block) \X (DOMAIN block) :
            /\ q[1] <= q[2]
            /\ \A k \in q[1]..q[2] : IsWordChar(block[k])
            /\ (q[1] = 1 \/ ~IsWordChar(block[q[1] - 1]))
            /\ (q[2] = Len(block) \/ ~IsWordChar(block[q[2] + 1])) } }

ExpectedWordSet(blocks, excluded) ==
    { w \in { toLowerCase(tok) : tok \in UNION {TokensOf(blocks[i]) : i \in DOMAIN blocks} } :
        /\ ~IsNumeric(w)
        /\ w \notin { toLowerCase(excluded[i]) : i \in DOMAIN excluded } }

StrictlyAscending(list) ==
    \A i \in 1..(Len(list) - 1) : StrLess(list[i], list[i + 1])

Reorderings(list) ==
    { [i \in DOMAIN list |-> list[f[i]]] :
        f \in { g \in [DOMAIN list -> DOMAIN list] : \A i, j \in DOMAIN list : g[i] = g[j] => i = j } }

\* C5: getUniqueWords returns exactly the ascending, duplicate-free list of
\* the lowercased word tokens of the blocks that are neither all-digit nor
\* the lowercase form of an excluded word; ["Hello World", "hello 123"] with
\* no exclusions gives ["hello", "world"], and vip score score with {vip}
\* excluded gives ["score"].
C5_UniqueWordsExact ==
    gwCalled =>
        /\ StrictlyAscending(gwResult)
        /\ Range(gwResult) = ExpectedWordSet(gwBlocks, gwExcluded)
        /\ ( /\ gwBlocks = << <<"H","e","l","l","o"," ","W","o","r","l","d">>,
                              <<"h","e","l","l","o"," ","1","2","3">> >>
             /\ gwExcluded = <<>> )
           => gwResult = << <<"h","e","l","l","o">>, <<"w","o","r","l","d">> >>
        /\ ( /\ gwBlocks = << <<"v","i","p"," ","s","c","o","r","e"," ","s","c","o","r","e">> >>
             /\ gwExcluded = << <<"v","i","p">> >> )
           => gwResult = << <<"s","c","o","r","e">> >>

C5_Witness ==
    /\ gwCalled
    /\ gwBlocks = << <<"H","e","l","l","o"," ","W","o","r","l","d">>,
                     <<"h","e","l","l","o"," ","1","2","3">> >>
    /\ gwExcluded = <<>>
    /\ gwResult = << <<"h","e","l","l","o">>, <<"w","o","r","l","d">> >>

\* C6: the result of getUniqueWords does not depend on the order of the text
\* blocks or of the excluded list, and getUniqueWords applied to its own
\* output (same exclusions) returns that output unchanged.
C6_OrderIndependentIdempotent ==
    gwCalled =>
        /\ \A b \in Reorderings(gwBlocks) : \A e \in Reorderings(gwExcluded) :
               getUniqueWords(b, e) = gwResult
        /\ getUniqueWords(gwResult, gwExcluded) = gwResult

C6_Witness ==
    /\ gwCalled
    /\ Len(gwBlocks) = 2 /\ gwBlocks[1] # gwBlocks[2]
    /\ Len(gwExcluded) = 2 /\ gwExcluded[1] # gwExcluded[2]
    /\ Len(gwResult) >= 3
    /\ getUniqueWords(gwResult, gwExcluded) = gwResult

(***************************************************************************)
(* Claims about the processing run and the exclusion list (Spec)           *)
(***************************************************************************)
\* the non-empty texts of the frames whose OCR call succeeded, in frame order
SuccessfulTexts(outs) ==
    LET good == SelectSeq(outs, LAMBDA o : o.ok /\ o.text # <<>>)
    IN  [i \in DOMAIN good |-> good[i].text]

\* C4: whatever frames fail in OCR, analyzeFramesForText returns the non-empty
\* texts of the frames that succeeded, in frame order, and the run of
\* handleProcessVideo then ends with 'Processing complete' and the word list
\* built from those texts, also when some or all frames failed.
C4_PerFrameFailuresSkipped ==
    [][ ( /\ runPc # "idle" /\ runPc' = "idle"
          /\ sessionCount' = sessionCount          \* the page was not reloaded
          /\ (runPc = "analyzing" \/ ocrOutcomes' # <<>>) )
        => /\ Len(ocrOutcomes') = Len(frames')
           /\ runTextBlocks' = SuccessfulTexts(ocrOutcomes')
           /\ uniqueWords' = getUniqueWords(SuccessfulTexts(ocrOutcomes'), runExcluded)
           /\ statusMessage' = Msg("Processing complete", Len(uniqueWords'), 0, "")
           /\ ~isProcessing' ]_vars

C4_Witness ==
    /\ runPc = "idle" /\ ~isProcessing
    /\ statusMessage.kind = "Processing complete"
    /\ Len(ocrOutcomes) = 2
    /\ ocrOutcomes[1].called /\ ~ocrOutcomes[1].ok
    /\ ocrOutcomes[2].ok /\ ocrOutcomes[2].text # <<>>
    /\ runTextBlocks = <<ocrOutcomes[2].text>>
    /\ uniqueWords # <<>>

NoDuplicates(list) == \A i, j \in DOMAIN list : list[i] = list[j] => i = j

\* C7: in every reachable state excludedWords holds only lowercase, trimmed,
\* non-empty strings, has no duplicates and is in ascending order.
C7_ExcludedWordsNormalised ==
    /\ \A i \in DOMAIN excludedWords :
          /\ excludedWords[i] # <<>>
          /\ toLowerCase(excludedWords[i]) = excludedWords[i]
          /\ trim(excludedWords[i]) = excludedWords[i]
    /\ NoDuplicates(excludedWords)
    /\ StrictlyAscending(excludedWords)

\* C8: in every reachable state the displayed uniqueWords list contains no
\* member of the current excludedWords list.
C8_ExcludedNeverDisplayed ==
    Range(uniqueWords) \cap Range(excludedWords) = {}

\* C9: once the persistence effect has run on a working store, the stored
\* entry decodes to exactly the current excludedWords, and a session start on
\* that entry loads the same list (the empty list too), not the defaults.
C9_PersistRoundTrip ==
    (~effectPending /\ lastPersistOk) =>
        /\ store.present
        /\ LET parsed == JSONParse(store.text)
           IN  /\ parsed.ok
               /\ parsed.type = "array"
               /\ [i \in DOMAIN parsed.items |-> parsed.items[i].type]
                      = [i \in DOMAIN excludedWords |-> "string"]
               /\ [i \in DOMAIN parsed.items |-> parsed.items[i].str] = excludedWords
        /\ LoadExcludedWords(store, FALSE) = [list |-> excludedWords, threw |-> FALSE]

\* a session that has just started on an entry written after an edit, holding
\* a word with a quote and a backslash
C9_Witness ==
    /\ sessionCount = 1 /\ effectPending /\ ~lastPersistOk
    /\ editCount >= 1
    /\ <<"a", "\"", "\\">> \in Range(excludedWords)
    /\ Len(excludedWords) <= 2

(***************************************************************************)
(* Claims about storage failures (SpecStorage)                             *)
(***************************************************************************)
\* the entry is absent, empty, not valid JSON, not an array, or an array with
\* an element that is not a string
BadEntry(entry) ==
    \/ ~entry.present
    \/ entry.text = <<>>
    \/ ~JSONParse(entry.text).ok
    \/ JSONParse(entry.text).type # "array"
    \/ \E i \in DOMAIN JSONParse(entry.text).items :
          JSONParse(entry.text).items[i].type # "string"

\* C10: a session that starts on an absent or malformed entry, or on a store
\* whose read fails, starts with the built-in default list and no error
\* propagates; a failing store write does not propagate either and leaves
\* excludedWords unchanged.
C10_StorageFailuresRecovered ==
    /\ ~uncaught
    /\ (BadEntry(store) \/ storage = "blocked") => excludedWords = INITIAL_EXCLUDED_WORDS
    /\ [][ /\ ~uncaught'
           /\ ( /\ sessionCount' = sessionCount + 1
                /\ (BadEntry(store) \/ storage = "blocked") )
              => excludedWords' = INITIAL_EXCLUDED_WORDS
           /\ (effectPending /\ ~effectPending' /\ storage # "working")
              => (excludedWords' = excludedWords /\ store' = store) ]_vars

\* a second session on a malformed entry that a failing write has left in place
C10_Witness ==
    /\ sessionCount = 1 /\ storage = "full"
    /\ store = Entry(<<"{", "}">>)
    /\ ~effectPending /\ ~lastPersistOk /\ ~uncaught
    /\ excludedWords = INITIAL_EXCLUDED_WORDS

(***************************************************************************)
(* The time selection                                                      *)
(***************************************************************************)
SelectionOrdered == 0 <= selection[1] /\ selection[1] <= selection[2] /\ selection[2] <= duration

\* C11: in every reachable state 0 <= start <= end <= duration; a start change
\* to a value >= the end leaves both bounds at the new start, and an end change
\* to a value <= the start leaves both bounds at the new end.
C11_SelectionWithinDuration ==
    /\ []SelectionOrdered
    /\ [][ /\ ((handleStartChange /\ selection'[1] >= selection[2])
                  => (selection'[2] = selection'[1]))
            /\ ((handleStartChange /\ selection'[1] < selection[2])
                  => (selection'[2] = selection[2]))
            /\ ((handleEndChange /\ selection'[2] <= selection[1])
                  => (selection'[1] = selection'[2]))
            /\ ((handleEndChange /\ selection'[2] > selection[1])
                  => (selection'[1] = selection[1])) ]_vars

\* the start slider was moved up to the end of the selection: both bounds are
\* at the new start
C11_Witness ==
    /\ duration > 0
    /\ selection[1] = selection[2] /\ selection[1] > 0

(***************************************************************************)
(* Failure of the sampler                                                  *)
(***************************************************************************)
\* why the sampler of the run failed, if it did
SamplerFailure ==
    IF sm.errorFired THEN "Error loading video"
    ELSE IF ~sm.context THEN "Canvas context is not available."
    ELSE ""

\* C12: when the sampler has failed (error signal, or no canvas context), the
\* next step ends the run: no OCR call was made, frames and uniqueWords are
\* empty, statusMessage is the error message with the sampler's reason and
\* isProcessing is false again; frames and uniqueWords stay empty afterwards.
C12_SamplerFailureHaltsRun ==
    /\ [][ (runPc = "extracting" /\ sm.promise # "pending" /\ SamplerFailure # "")
              => /\ runPc' = "idle"
                 /\ ocrOutcomes' = <<>>
                 /\ frames' = <<>> /\ uniqueWords' = <<>>
                 /\ statusMessage' = Msg("An error occurred", 0, 0, SamplerFailure)
                 /\ isProcessing' = FALSE ]_vars
    /\ [](runPc = "idle" /\ sm.active /\ SamplerFailure # "" /\ sm.promise # "pending"
              => /\ ocrOutcomes = <<>>
                 /\ frames = <<>> /\ uniqueWords = <<>>
                 /\ ~isProcessing)

\* a run has ended on the missing canvas context
C12_Witness ==
    /\ runPc = "idle" /\ sm.active /\ sm.promise = "rejected" /\ ~sm.errorFired
    /\ statusMessage = Msg("An error occurred", 0, 0, "Canvas context is not available.")
    /\ ~isProcessing

(***************************************************************************)
(* SpecSamplerFair: one run of extractFramesFromVideo on a video element   *)
(* that loads, answers every seek and never fires error                    *)
(***************************************************************************)
NextSamplerFair == LoadedMetadata \/ Seeked

SpecSamplerFair ==
    /\ InitSampler
    /\ [][NextSamplerFair]_vars
    /\ WF_vars(LoadedMetadata)
    /\ WF_vars(Seeked)

\* every capture appends the frame of second currentTime and moves on by one
CaptureAdvances ==
    sm'.frames # sm.frames =>
        /\ sm'.currentTime = sm.currentTime + 1
        /\ Len(sm'.frames) = Len(sm.frames) + 1
        /\ SubSeq(sm'.frames, 1, Len(sm.frames)) = sm.frames
        /\ sm'.frames[Len(sm'.frames)].id = sm.currentTime

\* the loop has stopped at the first currentTime beyond endTime
StoppedAtFirstBeyondEnd ==
    /\ sm.currentTime * TimeDen > sm.endTime
    /\ (sm.currentTime - 1) * TimeDen <= sm.endTime

\* C13 as stated: on a video element that loads, answers every seek and fires
\* no error, a run that has no signal left to wait for has resolved, at the
\* first currentTime beyond endTime.
C13_EveryRunResolves ==
    (sm.active /\ sm.metadataLoaded /\ ~sm.seekPending)
        => (sm.promise = "resolved" /\ StoppedAtFirstBeyondEnd)

\* C13, amended: on such a video element every run terminates; a run with a
\* canvas context resolves, currentTime growing by one per capture, stopping at
\* the first currentTime beyond endTime, with the frames in capture order; a run
\* without a canvas context rejects at the first seeked.
C13_RunTerminates ==
    /\ [](sm.context => <>(sm.promise = "resolved"))
    /\ [](~sm.context => <>(sm.promise = "rejected" /\ sm.frames = <<>>))
    /\ [][CaptureAdvances]_vars
    /\ [](sm.promise = "resolved"
            => /\ StoppedAtFirstBeyondEnd
               /\ ~sm.seekPending
               /\ FrameIds(sm.frames)
                    = ConsecutiveFrom(InitialTime(sm.startTime), sm.currentTime - 1))
    /\ [](sm.seekPending /\ sm.frames # <<>> => sm.currentTime * TimeDen <= sm.endTime)

\* a run of three captures has resolved
C13_Witness ==
    /\ sm.promise = "resolved" /\ Len(sm.frames) = 3
    /\ sm.startTime # InitialTime(sm.startTime) * TimeDen

(***************************************************************************)
(* Order of the sampler's steps                                            *)
(***************************************************************************)
\* C14: before loadedmetadata no seek is issued and no frame is captured; the
\* handler sizes the canvas to the video and issues the first seek, to
\* floor(startTime); a frame is captured only in answer to an outstanding seek
\* of the sampler, and it is the frame of the second that seek went to.
C14_NothingBeforeMetadata ==
    /\ [](~sm.metadataLoaded => (sm.seeks = <<>> /\ sm.frames = <<>> /\ ~sm.seekPending))
    /\ [](sm.seeks # <<>> => /\ sm.metadataLoaded
                              /\ sm.canvasWidth = sm.videoWidth
                              /\ sm.seeks[1] = InitialTime(sm.startTime))
    /\ [][ (sm.seeks = <<>> /\ sm'.seeks # <<>>) => (~sm.metadataLoaded /\ sm'.metadataLoaded) ]_vars
    /\ [][ (sm'.frames # sm.frames) => (sm.metadataLoaded /\ sm.seekPending) ]_vars
    /\ [](/\ Len(sm.frames) <= Len(sm.seeks)
          /\ \A i \in DOMAIN sm.frames : sm.frames[i].id = sm.seeks[i])

\* the canvas was sized and two frames were captured
C14_Witness ==
    /\ sm.metadataLoaded /\ sm.canvasWidth = 640
    /\ Len(sm.frames) = 2 /\ Len(sm.seeks) = 3

\* how often the log holds a call or event of the kind
CountOf(log, what) == Cardinality({i \in DOMAIN log : log[i][1] = what})

\* seeks issued and not yet answered by seeked
Outstanding == CountOf(sm.log, "seek") - CountOf(sm.log, "seeked")

\* every seek but the first comes right after the push and the report of the
\* frame of the second before
SeekFollowsCapture ==
    \A i \in DOMAIN sm.log :
        (sm.log[i][1] = "seek" /\ ~(i > 1 /\ sm.log[i - 1][1] = "loadedmetadata"))
            => /\ i > 3
               /\ sm.log[i - 1][1] = "onProgress"
               /\ sm.log[i - 2] = <<"push", sm.log[i][2] - 1>>
               /\ sm.log[i - 3][1] = "seeked"

\* C15 as stated: at most one seek is outstanding, the seek to second t+1 comes
\* after the frame of second t was captured, appended and reported, and every
\* seeked signal has produced exactly one frame.
C15_OneFramePerSeeked ==
    /\ Outstanding \in {0, 1}
    /\ SeekFollowsCapture
    /\ Len(sm.frames) = CountOf(sm.log, "seeked")

\* C15, amended: at most one seek is outstanding, the seek to second t+1 comes
\* after the frame of second t was captured, appended and reported, and every
\* seeked signal has produced exactly one frame when the canvas context is
\* available, and no frame when it is not.
C15_OneSeekAtATime ==
    /\ Outstanding \in {0, 1}
    /\ sm.seekPending <=> (Outstanding = 1)
    /\ SeekFollowsCapture
    /\ Len(sm.frames) = IF sm.context THEN CountOf(sm.log, "seeked") ELSE 0
    /\ CountOf(sm.log, "push") = Len(sm.frames)

\* the third seek is outstanding, two frames are captured
C15_Witness ==
    /\ sm.seekPending /\ CountOf(sm.log, "seek") = 3 /\ Len(sm.frames) = 2

(***************************************************************************)
(* Order of the OCR calls                                                  *)
(***************************************************************************)
\* the run has gone through the whole OCR loop and has returned
LoopReturned ==
    runPc = "idle" /\ frames # <<>> /\ statusMessage.kind = "Processing complete"

\* C16 as stated: the calls are made one at a time in frame order, and when the
\* loop has returned every frame has had exactly one call.
C16_EveryFrameCalledOnce ==
    /\ runPc = "analyzing" => (ocrIndex \in DOMAIN frames /\ Len(ocrOutcomes) = ocrIndex - 1)
    /\ LoopReturned => /\ Len(ocrOutcomes) = Len(frames)
                       /\ \A i \in DOMAIN ocrOutcomes : ocrOutcomes[i].called

\* C16, amended: the calls are made one at a time in frame order; the call for
\* a later frame is issued only when the awaited one has succeeded or failed,
\* whichever it was; no frame is called twice; every frame whose image data URL
\* parses gets exactly one call, and a frame whose URL does not parse gets none.
C16_SequentialCalls ==
    /\ [](runPc = "analyzing"
            => /\ ocrIndex \in DOMAIN frames
               /\ Len(ocrOutcomes) = ocrIndex - 1
               /\ ~dataUrlToPartThrows(frames[ocrIndex].imageDataUrl))
    /\ []((runPc = "analyzing" \/ LoopReturned)
            => \A i \in DOMAIN ocrOutcomes :
                  /\ i \in DOMAIN frames
                  /\ ocrOutcomes[i].called = ~dataUrlToPartThrows(frames[i].imageDataUrl))
    /\ [](LoopReturned => Len(ocrOutcomes) = Len(frames))
    /\ [][ (runPc = "analyzing" /\ runPc' = "analyzing" /\ sessionCount' = sessionCount)
              => \/ (ocrIndex' = ocrIndex /\ ocrOutcomes' = ocrOutcomes)
                 \/ /\ ocrIndex' > ocrIndex
                    /\ Len(ocrOutcomes') > Len(ocrOutcomes)
                    /\ SubSeq(ocrOutcomes', 1, Len(ocrOutcomes)) = ocrOutcomes
                    /\ ocrOutcomes'[ocrIndex].called ]_vars
    /\ [][ (runPc = "analyzing" /\ runPc' = "idle" /\ sessionCount' = sessionCount)
              => /\ Len(ocrOutcomes') = Len(frames)
                 /\ SubSeq(ocrOutcomes', 1, Len(ocrOutcomes)) = ocrOutcomes
                 /\ ocrOutcomes'[ocrIndex].called ]_vars

\* the call for the first frame failed and the second frame was called all the same
C16_Witness ==
    /\ LoopReturned /\ Len(ocrOutcomes) = 2
    /\ ocrOutcomes[1].called /\ ~ocrOutcomes[1].ok
    /\ ocrOutcomes[2].called /\ ocrOutcomes[2].ok

(***************************************************************************)
(* Progress messages of the sampler                                        *)
(***************************************************************************)
\* every onProgress call comes right after the push of its frame and right
\* before the next seek or the end of the run
ReportBetweenPushAndSeek ==
    \A i \in DOMAIN sm.log :
        sm.log[i][1] = "onProgress"
            => /\ i > 1 /\ sm.log[i - 1][1] = "push"
               /\ sm.frames[sm.log[i][2]].id = sm.log[i - 1][2]
               /\ i < Len(sm.log)
               /\ \/ sm.log[i + 1] = <<"seek", sm.log[i - 1][2] + 1>>
                  \/ (sm.log[i + 1][1] = "revoke" /\ sm.log[i + 2][1] = "resolve")

\* C17: onProgress is called once per captured frame, after the push and
\* before the next seek or the end of the run; the k-th message reports k of
\* max(1, floor(endTime - startTime)); the run captures every whole second up
\* to endTime whatever that total is.
C17_ProgressPerFrame ==
    /\ Len(sm.progress) = Len(sm.frames)
    /\ CountOf(sm.log, "onProgress") = Len(sm.frames)
    /\ ReportBetweenPushAndSeek
    /\ \A k \in DOMAIN sm.progress :
          sm.progress[k] = Msg("Extracted frame", k,
                               IF (sm.endTime - sm.startTime) \div TimeDen >= 1
                               THEN (sm.endTime - sm.startTime) \div TimeDen ELSE 1,
                               "")
    /\ sm.promise = "resolved"
          => Len(sm.frames) = (sm.endTime \div TimeDen) - (sm.startTime \div TimeDen) + 1

\* a run has reported more frames than the total of its messages
C17_Witness ==
    /\ sm.promise = "resolved"
    /\ Len(sm.progress) = 3 /\ sm.progress[3].n = 3 /\ sm.progress[3].total = 2

(***************************************************************************)
(* The exclusion list during a run                                         *)
(***************************************************************************)
\* C18: while a run is in flight no step changes excludedWords, and when the
\* run displays its word list the exclusion list it filtered with is the
\* current one.
C18_ExclusionFrozenDuringRun ==
    /\ [][ (isProcessing /\ sessionCount' = sessionCount)
              => excludedWords' = excludedWords ]_vars
    /\ [][ (runPc = "analyzing" /\ runPc' = "idle" /\ sessionCount' = sessionCount)
              => (runExcluded = excludedWords'
                  /\ uniqueWords' = getUniqueWords(runTextBlocks', excludedWords')) ]_vars

(***************************************************************************)
(* SpecRuns: one session of loading clips and running the pipeline more    *)
(* than once, the exclusion list left alone                                *)
(***************************************************************************)
InitRuns ==
    /\ Mounted({"working"})
    /\ budget = [edits |-> 0, runs |-> MaxRuns + 1, sessions |-> 0]

NextRuns ==
    \/ PersistEffect
    \/ handleFileChange
    \/ handleRemoveVideo
    \/ handleLoadedMetadata
    \/ handleStartChange
    \/ handleEndChange
    \/ handleProcessVideo
    \/ LoadedMetadata
    \/ Seeked
    \/ VideoError
    \/ ExtractSettled
    \/ OcrResponse

SpecRuns == InitRuns /\ [][NextRuns]_vars

\* a step of the run in flight: the sampler's capture, or a continuation of
\* handleProcessVideo
RunStep == Seeked \/ ExtractSettled \/ OcrResponse

\* C19: a run starts only when no run is in flight and a video file is loaded;
\* a run is in flight exactly while isProcessing is true; while it is, the
\* file, its URL, the duration and the selection do not change, and frames,
\* uniqueWords and statusMessage change by the run's own steps only.
C19_OneRunAtATime ==
    /\ [](isProcessing <=> runPc # "idle")
    /\ [][ runCount' # runCount
              => /\ ~isProcessing /\ runPc = "idle"
                 /\ videoFile # "none" /\ videoUrl # "none"
                 /\ isProcessing' /\ runPc' = "extracting" ]_vars
    /\ [][ isProcessing
              => /\ UNCHANGED <<videoFile, videoUrl, duration, selection>>
                 /\ RunStep \/ UNCHANGED <<frames, uniqueWords, statusMessage>> ]_vars
    /\ [][ (isProcessing /\ (handleFileChange \/ handleRemoveVideo)) => UNCHANGED appVars ]_vars

\* the second run of the session is in flight
C19_Witness ==
    /\ runCount = 2 /\ isProcessing /\ runPc = "analyzing"

(***************************************************************************)
(* A video element that stops answering                                    *)
(***************************************************************************)
\* the sampler of the run in flight waits for loadedmetadata or for seeked
AwaitingSignal ==
    /\ runPc = "extracting" /\ sm.viaApp /\ sm.promise = "pending"
    /\ ~sm.metadataLoaded \/ sm.seekPending

MediaSignal == LoadedMetadata \/ Seeked \/ VideoError

InitBatch ==
    /\ Mounted({"working"})
    /\ budget = [edits |-> MaxEdits, runs |-> MaxRuns, sessions |-> 0]

NextBatch ==
    \/ PersistEffect
    \/ handleFileChange
    \/ handleLoadedMetadata
    \/ handleProcessVideo
    \/ LoadedMetadata
    \/ Seeked
    \/ ExtractSettled
    \/ OcrResponse
    \/ handleAddExcludedWord
    \/ handleWordDoubleClick
    \/ handleWordDoubleClicks

SpecBatch == InitBatch /\ [][NextBatch]_vars

\* how often the word occurs in the list
Occurrences(list, word) == Cardinality({i \in DOMAIN list : list[i] = word})

\* the displayed words the step has removed: the words double-clicked
Clicked == Range(uniqueWords) \ Range(uniqueWords')

\* C21: a step of double-clicks removes each clicked word from uniqueWords and
\* leaves it exactly once in excludedWords; the other displayed words and the
\* other excluded words are kept, also when two double-clicks are handled
\* before the next render.
C21_DoubleClickMovesWord ==
    [][ (handleWordDoubleClick \/ handleWordDoubleClicks)
           => /\ Clicked # {}
              /\ \A w \in Clicked : Occurrences(excludedWords', w) = 1
              /\ uniqueWords' = SelectSeq(uniqueWords, LAMBDA w : w \notin Clicked)
              /\ \A w \in Range(excludedWords) :
                    Occurrences(excludedWords', w) = Occurrences(excludedWords, w)
              /\ Range(excludedWords') = Range(excludedWords) \cup Clicked ]_vars

(***************************************************************************)
(* The sampler after its run has ended                                     *)
(***************************************************************************)
\* C22: once the promise of a run is settled, no later signal captures a
\* frame, issues a seek or calls onProgress, and the outcome stays as delivered.
C22_SettledRunIsTerminal ==
    [][ (sm.active /\ sm.promise \in {"resolved", "rejected"})
           => /\ sm'.frames = sm.frames
              /\ sm'.seeks = sm.seeks
              /\ sm'.progress = sm.progress
              /\ sm'.promise = sm.promise /\ sm'.reason = sm.reason ]_vars

\* C23: in every progress message of the sampler the count N is at most the
\* total T.
C23_CountWithinTotal ==
    \A k \in DOMAIN sm.progress : sm.progress[k].n <= sm.progress[k].total

====
